---- MODULE Spec2Model ----
(***************************************************************************)
(* A model of pidgin-sipe's media call handling, src/core/sipe-media.c:    *)
(* SDP parsing, candidate resolution, codec pruning, SDP generation and    *)
(* the per-account call state machine driven by incoming INVITEs and by    *)
(* the media engine's stream-info and candidates-prepared signals.         *)
(*                                                                         *)
(* SDP text is kept as a sequence of lines, each line a record             *)
(* [p, name, value]: p is the letter before '=', name the attribute name   *)
(* of an a= line, value the already tokenised remainder.                   *)
(***************************************************************************)
EXTENDS Integers, Sequences, FiniteSets, TLC

VARIABLES
    media_call,   \* sip->media_call: the account's call slot
    media,        \* the media engine's state for the call's PurpleMedia
    stale_media,  \* some PurpleMedia whose call was freed still has its handlers connected
    out,          \* SIP messages sent by the last handler, in order
    ev,           \* the last handler that ran, its arguments and the state it saw
    fault,        \* "none", or the memory fault that ended the process
    pf            \* input and result of the pure function under study

vars == <<media_call, media, stale_media, out, ev, fault, pf>>

-----------------------------------------------------------------------------
(* Values *)

Null == "NULL"

\* sip->media_call == NULL
NoCall == [alive |-> FALSE]

NoMedia == [exists |-> FALSE]

U16(n) == n % 65536

Line(p, name, value) == [p |-> p, name |-> name, value |-> value]

Attr(name, value) == [name |-> name, value |-> value]

\* typedef enum sipe_call_state
SIPE_CALL_CONNECTING == "CONNECTING"
SIPE_CALL_RUNNING == "RUNNING"
SIPE_CALL_HELD == "HELD"
SIPE_CALL_FINISHED == "FINISHED"

Codec(id, name, clock_rate) ==
    [id |-> id, name |-> name, clock_rate |-> clock_rate, params |-> <<>>]

Candidate(foundation, component, type, protocol, ip, port) ==
    [foundation |-> foundation, component |-> component, type |-> type,
     protocol |-> protocol, ip |-> ip, port |-> port, priority |-> 0,
     username |-> Null, password |-> Null]

\* the tokens of an a=candidate value, split on spaces
CandTokens(foundation, component, protocol, priority, ip, port, typ) ==
    [foundation |-> foundation, component |-> component, protocol |-> protocol,
     priority |-> priority, ip |-> ip, port |-> port, typ |-> typ]

\* the tokens of an a=rtpmap value, split on " /"
RtpTokens(id, name, clock_rate) ==
    [id |-> id, name |-> name, clock_rate |-> clock_rate]

-----------------------------------------------------------------------------
(* sipe-utils name/value lists, as sipe-media.c uses them *)

RECURSIVE nameval_instances(_, _)
nameval_instances(attrs, name) ==
    IF attrs = <<>> THEN <<>>
    ELSE IF Head(attrs).name = name
         THEN <<Head(attrs).value>> \o nameval_instances(Tail(attrs), name)
         ELSE nameval_instances(Tail(attrs), name)

nameval_has(attrs, name) == \E i \in 1..Len(attrs) : attrs[i].name = name

\* sipe_utils_nameval_find: the first value of that name; meaningful when nameval_has
nameval_find(attrs, name) == Head(nameval_instances(attrs, name))

-----------------------------------------------------------------------------
(* Remote codecs *)

RECURSIVE parse_codec_loop(_)
parse_codec_loop(rtpmaps) ==
    IF rtpmaps = <<>> THEN <<>>
    ELSE <<Codec(Head(rtpmaps).id, Head(rtpmaps).name, Head(rtpmaps).clock_rate)>>
         \o parse_codec_loop(Tail(rtpmaps))

sipe_media_parse_remote_codecs(call) ==
    parse_codec_loop(nameval_instances(call.sdp_attrs, "rtpmap"))

\* g_strcmp0 of the two encoding names: 0 when equal
codec_name_compare(codec1, codec2) == IF codec1.name = codec2.name THEN 0 ELSE 1

\* g_list_find_custom(local_codecs, c, codec_name_compare)
find_custom(local_codecs, c) ==
    \E i \in 1..Len(local_codecs) : codec_name_compare(local_codecs[i], c) = 0

RECURSIVE prune_loop(_, _)
prune_loop(local_codecs, remote_codecs) ==
    IF remote_codecs = <<>> THEN <<>>
    ELSE IF find_custom(local_codecs, Head(remote_codecs))
         THEN <<Head(remote_codecs)>> \o prune_loop(local_codecs, Tail(remote_codecs))
         ELSE prune_loop(local_codecs, Tail(remote_codecs))

\* a pruning that walks the local list and keeps local order
RECURSIVE prune_local_order(_, _)
prune_local_order(local_codecs, codecs) ==
    IF local_codecs = <<>> THEN <<>>
    ELSE SelectSeq(codecs, LAMBDA c : codec_name_compare(Head(local_codecs), c) = 0)
         \o prune_local_order(Tail(local_codecs), codecs)

sipe_media_prune_remote_codecs(local_codecs, codecs) ==
    prune_loop(local_codecs, codecs)

-----------------------------------------------------------------------------
(* Remote candidates *)

component_of(n) == IF n = 1 THEN "RTP" ELSE IF n = 2 THEN "RTCP" ELSE "NONE"

candidate_type_of(typ) ==
    IF typ = "host" THEN "HOST" ELSE IF typ = "relay" THEN "RELAY" ELSE "SRFLX"

RECURSIVE candidate_loop(_)
candidate_loop(lines) ==
    IF lines = <<>> THEN <<>>
    ELSE LET t == Head(lines) IN
         IF t.protocol # "UDP" THEN candidate_loop(Tail(lines))
         ELSE IF t.typ \notin {"host", "relay", "srflx"} THEN candidate_loop(Tail(lines))
         ELSE <<[Candidate(t.foundation, component_of(t.component),
                           candidate_type_of(t.typ), "UDP", t.ip, U16(t.port))
                   EXCEPT !.priority = t.priority]>>
              \o candidate_loop(Tail(lines))

\* the two candidates of the OC2005 fallback
legacy_candidates(call) ==
    << Candidate("foundation", "RTP", "HOST", "UDP", call.remote_ip, call.remote_port),
       Candidate("foundation", "RTCP", "HOST", "UDP", call.remote_ip, call.remote_port + 1) >>

set_credentials(candidates, attrs) ==
    IF nameval_has(attrs, "ice-ufrag")
    THEN [i \in 1..Len(candidates) |->
            [candidates[i] EXCEPT
               !.username = nameval_find(attrs, "ice-ufrag"),
               !.password = IF nameval_has(attrs, "ice-pwd")
                            THEN nameval_find(attrs, "ice-pwd") ELSE Null]]
    ELSE candidates

\* a resolver that never falls back
parse_remote_candidates_no_fallback(call) ==
    [candidates |-> set_credentials(
                      candidate_loop(nameval_instances(call.sdp_attrs, "candidate")),
                      call.sdp_attrs),
     legacy_mode |-> call.legacy_mode]

\* returns the candidate list and the call's legacy_mode after the call
sipe_media_parse_remote_candidates(call) ==
    LET parsed == candidate_loop(nameval_instances(call.sdp_attrs, "candidate"))
        none == parsed = <<>>
        candidates == IF none THEN legacy_candidates(call) ELSE parsed
    IN [candidates |-> set_credentials(candidates, call.sdp_attrs),
        legacy_mode |-> IF none THEN TRUE ELSE call.legacy_mode]

-----------------------------------------------------------------------------
(* SDP parsing *)

\* g_strsplit(line + 2, ":", 2) of an a= line gives no name
Malformed(line) == line.p = "a" /\ line.name = Null

RECURSIVE parse_frame_loop(_, _)
parse_frame_loop(lines, acc) ==
    IF lines = <<>> THEN acc
    ELSE LET l == Head(lines) IN
         IF l.p = "a"
         THEN IF Malformed(l)
              THEN [acc EXCEPT !.sdp_attrs = <<>>, !.no_error = FALSE]
              ELSE parse_frame_loop(Tail(lines),
                     [acc EXCEPT !.sdp_attrs = Append(@, Attr(l.name, l.value))])
         ELSE IF l.p = "o"
         THEN parse_frame_loop(Tail(lines), [acc EXCEPT !.remote_ip = l.value])
         ELSE IF l.p = "m"
         THEN parse_frame_loop(Tail(lines), [acc EXCEPT !.remote_port = U16(l.value.port)])
         ELSE parse_frame_loop(Tail(lines), acc)

\* returns no_error and the call as the function leaves it
sipe_media_parse_sdp_frame(call, frame) ==
    LET r == parse_frame_loop(frame,
               [sdp_attrs |-> <<>>, remote_ip |-> Null, remote_port |-> 0,
                no_error |-> TRUE])
    IN [no_error |-> r.no_error,
        call |-> IF r.no_error
                 THEN [call EXCEPT !.sdp_attrs = r.sdp_attrs,
                                   !.remote_ip = r.remote_ip,
                                   !.remote_port = r.remote_port]
                 ELSE call]

-----------------------------------------------------------------------------
(* The media engine, as sipe-media.c reads it *)

\* purple_media_get_codecs(media, "sipe-voice")
LocalCodecs ==
    << Codec(0, "PCMU", 8000),
       Codec(9, "G722", 8000),
       [Codec(101, "telephone-event", 8000) EXCEPT !.params = <<[key |-> "events", value |-> "0-16"]>>] >>

LocalRtp == [Candidate("1", "RTP", "HOST", "UDP", "192.168.1.2", 6000)
               EXCEPT !.username = "lu", !.password = "lp"]

LocalRtcp == [Candidate("1", "RTCP", "HOST", "UDP", "192.168.1.2", 6001)
                EXCEPT !.username = "lu", !.password = "lp"]

\* the candidate lists the engine may have gathered when it signals candidates-prepared
LocalCandidateLists == { <<LocalRtp, LocalRtcp>>, <<LocalRtp>> }

\* purple_media_get_local_candidates: nothing is gathered before candidates-prepared
purple_media_get_local_candidates(m) ==
    IF m.prepared THEN m.local_candidates ELSE <<>>

\* sipe_utils_get_suitable_local_ip(-1)
LocalIp == "192.168.1.2"

NewMedia == [exists |-> TRUE, prepared |-> FALSE, accepted |-> FALSE, local_candidates |-> <<>>]

-----------------------------------------------------------------------------
(* SDP generation *)

RECURSIVE sipe_media_sdp_codec_ids_format(_)
sipe_media_sdp_codec_ids_format(codecs) ==
    IF codecs = <<>> THEN <<>>
    ELSE <<Head(codecs).id>> \o sipe_media_sdp_codec_ids_format(Tail(codecs))

RECURSIVE sipe_media_sdp_codecs_format(_)
sipe_media_sdp_codecs_format(codecs) ==
    IF codecs = <<>> THEN <<>>
    ELSE LET c == Head(codecs) IN
         <<Line("a", "rtpmap", RtpTokens(c.id, c.name, c.clock_rate))>>
         \o (IF c.params # <<>>
             THEN <<Line("a", "fmtp", [id |-> c.id, params |-> c.params])>>
             ELSE <<>>)
         \o sipe_media_sdp_codecs_format(Tail(codecs))

component_number(c) == IF c.component = "RTP" THEN 1 ELSE 2

type_token(c) ==
    IF c.type = "HOST" THEN "host" ELSE IF c.type = "RELAY" THEN "relay" ELSE "srflx"

RECURSIVE candidate_lines(_)
candidate_lines(candidates) ==
    IF candidates = <<>> THEN <<>>
    ELSE LET c == Head(candidates) IN
         <<Line("a", "candidate",
                CandTokens(c.foundation, component_number(c), c.protocol,
                           c.priority, c.ip, c.port, type_token(c)))>>
         \o candidate_lines(Tail(candidates))

\* rtcp_port after the loop: the first RTCP port seen while rtcp_port is still 0
RECURSIVE rtcp_port_of(_)
rtcp_port_of(candidates) ==
    IF candidates = <<>> THEN 0
    ELSE IF Head(candidates).component = "RTCP" /\ Head(candidates).port # 0
         THEN Head(candidates).port
         ELSE rtcp_port_of(Tail(candidates))

rtcp_lines(candidates) ==
    IF rtcp_port_of(candidates) # 0
    THEN << Line("a", "maxptime", 200), Line("a", "rtcp", rtcp_port_of(candidates)) >>
    ELSE <<>>

\* a formatter without the legacy_mode return
candidates_format_ignoring_legacy(candidates, call, remote_candidate) ==
    IF candidates = <<>> THEN [fault |-> "null_deref", lines |-> <<>>]
    ELSE IF remote_candidate /\ Len(call.remote_candidates) < 2
         THEN [fault |-> "null_deref", lines |-> <<>>]
    ELSE [fault |-> "none",
          lines |->
            << Line("a", "ice-ufrag", candidates[1].username),
               Line("a", "ice-pwd", candidates[1].password) >>
            \o candidate_lines(candidates)
            \o (IF remote_candidate
                THEN <<Line("a", "remote-candidates",
                            << call.remote_candidates[1].ip, call.remote_candidates[1].port,
                               call.remote_candidates[2].ip, call.remote_candidates[2].port >>)>>
                ELSE <<>>)
            \o rtcp_lines(candidates)]

\* returns the lines, or the fault of reading ->data through a NULL list node
sipe_media_sdp_candidates_format(candidates, call, remote_candidate) ==
    IF candidates = <<>> THEN [fault |-> "null_deref", lines |-> <<>>]
    ELSE IF call.legacy_mode THEN [fault |-> "none", lines |-> <<>>]
    ELSE IF remote_candidate /\ Len(call.remote_candidates) < 2
         THEN [fault |-> "null_deref", lines |-> <<>>]
    ELSE [fault |-> "none",
          lines |->
            << Line("a", "ice-ufrag", candidates[1].username),
               Line("a", "ice-pwd", candidates[1].password) >>
            \o candidate_lines(candidates)
            \o (IF remote_candidate
                THEN <<Line("a", "remote-candidates",
                            << call.remote_candidates[1].ip, call.remote_candidates[1].port,
                               call.remote_candidates[2].ip, call.remote_candidates[2].port >>)>>
                ELSE <<>>)
            \o rtcp_lines(candidates)]

\* a body with the inactive marker ahead of the candidate block
create_sdp_inactive_first(call, m, remote_candidate) ==
    LET local_codecs == LocalCodecs
        local_candidates == purple_media_get_local_candidates(m)
    IN IF local_candidates = <<>> THEN [fault |-> "null_deref", body |-> <<>>]
       ELSE LET sdp_candidates ==
                    sipe_media_sdp_candidates_format(local_candidates, call, remote_candidate)
                inactive == IF call.state = SIPE_CALL_HELD
                            THEN <<Line("a", "inactive", Null)>> ELSE <<>>
            IN IF sdp_candidates.fault # "none"
               THEN [fault |-> sdp_candidates.fault, body |-> <<>>]
               ELSE [fault |-> "none",
                     body |->
                       << Line("v", Null, 0),
                          Line("o", Null, LocalIp),
                          Line("s", Null, "session"),
                          Line("c", Null, LocalIp),
                          Line("b", Null, "CT:99980"),
                          Line("t", Null, 0),
                          Line("m", Null, [port |-> local_candidates[1].port,
                                           fmt |-> sipe_media_sdp_codec_ids_format(local_codecs)]) >>
                       \o inactive
                       \o sdp_candidates.lines
                       \o sipe_media_sdp_codecs_format(local_codecs)
                       \o <<Line("a", "encryption", "rejected")>>]

\* returns the body, or the fault that ends the process
sipe_media_create_sdp(call, m, remote_candidate) ==
    LET local_codecs == LocalCodecs
        local_candidates == purple_media_get_local_candidates(m)
    IN IF local_candidates = <<>> THEN [fault |-> "null_deref", body |-> <<>>]
       ELSE LET sdp_candidates ==
                    sipe_media_sdp_candidates_format(local_candidates, call, remote_candidate)
                inactive == IF call.state = SIPE_CALL_HELD
                            THEN <<Line("a", "inactive", Null)>> ELSE <<>>
            IN IF sdp_candidates.fault # "none"
               THEN [fault |-> sdp_candidates.fault, body |-> <<>>]
               ELSE [fault |-> "none",
                     body |->
                       << Line("v", Null, 0),
                          Line("o", Null, LocalIp),
                          Line("s", Null, "session"),
                          Line("c", Null, LocalIp),
                          Line("b", Null, "CT:99980"),
                          Line("t", Null, 0),
                          Line("m", Null, [port |-> local_candidates[1].port,
                                           fmt |-> sipe_media_sdp_codec_ids_format(local_codecs)]) >>
                       \o sdp_candidates.lines
                       \o inactive
                       \o sipe_media_sdp_codecs_format(local_codecs)
                       \o <<Line("a", "encryption", "rejected")>>]

-----------------------------------------------------------------------------
(* SIP messages *)

NoBody == <<>>

NoMsg == [callid |-> Null, body |-> NoBody]

\* send_sip_response(gc, msg, code, text, body)
Response(msg, code, body) ==
    [kind |-> "response", code |-> code, method |-> Null, inv |-> msg,
     dialog |-> Null, rendering_no |-> FALSE, body |-> body]

\* send_sip_request(gc, method, with, with, hdr, body, dialog, NULL)
Request(method, dialog, rendering_no, body) ==
    [kind |-> "request", code |-> 0, method |-> method, inv |-> NoMsg,
     dialog |-> dialog, rendering_no |-> rendering_no, body |-> body]

-----------------------------------------------------------------------------
(* Handlers.  A handler maps the world w = [call, media, stale, freed, out,   *)
(* fault, path] at its entry to the world at its return; call is             *)
(* sip->media_call, freed what the struct held when the handler freed it,    *)
(* path the functions the handler dispatched to.  Once w.fault is set the    *)
(* process has stopped and nothing later in the handler runs.                *)

\* the fields of a call that an event record keeps
Summary(call) ==
    IF call.alive
    THEN [alive |-> TRUE, state |-> call.state, legacy_mode |-> call.legacy_mode,
          callid |-> call.callid]
    ELSE [alive |-> FALSE, state |-> Null, legacy_mode |-> FALSE, callid |-> Null]

send(w, m) == [w EXCEPT !.out = Append(@, m)]

crash(w, f) == [w EXCEPT !.fault = f]

called(w, fn) == [w EXCEPT !.path = Append(@, fn)]

\* sipe_media_call_free, followed by the caller's sip->media_call = NULL
sipe_media_call_free(w) ==
    [w EXCEPT !.freed = Summary(w.call), !.call = NoCall]

\* a session-ready callback whose final answer leaves the state alone
session_ready_keeps_state(w) ==
    IF ~w.media.prepared THEN w
    ELSE LET sdp == IF w.call.sdp_response = NoBody
                    THEN sipe_media_create_sdp(w.call, w.media, FALSE)
                    ELSE [fault |-> "none", body |-> w.call.sdp_response]
         IN IF sdp.fault # "none" THEN crash(w, sdp.fault)
            ELSE LET w1 == [w EXCEPT !.call.sdp_response = sdp.body] IN
                 IF ~w1.media.accepted
                 THEN IF ~w1.call.legacy_mode
                      THEN send(w1, Response(w1.call.invitation, 183, sdp.body))
                      ELSE w1
                 ELSE send(w1, Response(w1.call.invitation, 200, sdp.body))

\* a session-ready callback that sends the provisional answer in legacy mode too
session_ready_always_183(w) ==
    IF ~w.media.prepared THEN w
    ELSE LET sdp == IF w.call.sdp_response = NoBody
                    THEN sipe_media_create_sdp(w.call, w.media, FALSE)
                    ELSE [fault |-> "none", body |-> w.call.sdp_response]
         IN IF sdp.fault # "none" THEN crash(w, sdp.fault)
            ELSE LET w1 == [w EXCEPT !.call.sdp_response = sdp.body] IN
                 IF ~w1.media.accepted
                 THEN send(w1, Response(w1.call.invitation, 183, sdp.body))
                 ELSE [send(w1, Response(w1.call.invitation, 200, sdp.body))
                         EXCEPT !.call.state = SIPE_CALL_RUNNING]

sipe_media_session_ready_cb(w) ==
    IF ~w.media.prepared THEN w
    ELSE LET sdp == IF w.call.sdp_response = NoBody
                    THEN sipe_media_create_sdp(w.call, w.media, FALSE)
                    ELSE [fault |-> "none", body |-> w.call.sdp_response]
         IN IF sdp.fault # "none" THEN crash(w, sdp.fault)
            ELSE LET w1 == [w EXCEPT !.call.sdp_response = sdp.body] IN
                 IF ~w1.media.accepted
                 THEN IF ~w1.call.legacy_mode
                      THEN send(w1, Response(w1.call.invitation, 183, sdp.body))
                      ELSE w1
                 ELSE [send(w1, Response(w1.call.invitation, 200, sdp.body))
                         EXCEPT !.call.state = SIPE_CALL_RUNNING]

sipe_invite_call(w) ==
    LET body == sipe_media_create_sdp(w.call, w.media, TRUE) IN
    IF body.fault # "none" THEN crash(w, body.fault)
    ELSE send(w, Request("INVITE", w.call.callid,
                         w.call.state = SIPE_CALL_HELD, body.body))

notify_state_change(w, local) ==
    IF local THEN sipe_invite_call(w)
    ELSE LET body == sipe_media_create_sdp(w.call, w.media, TRUE) IN
         IF body.fault # "none" THEN crash(w, body.fault)
         ELSE send(w, Response(w.call.invitation, 200, body.body))

\* the PURPLE_MEDIA_INFO_HOLD branch; its closing purple_media_stream_info(HOLD)
\* re-enters the callback, which returns at once because the state is HELD
stream_info_hold(w, local) ==
    IF w.call.state = SIPE_CALL_HELD THEN w
    ELSE notify_state_change([w EXCEPT !.call.state = SIPE_CALL_HELD], local)

\* the PURPLE_MEDIA_INFO_UNHOLD branch; the re-entry returns because of RUNNING
stream_info_unhold(w, local) ==
    IF w.call.state = SIPE_CALL_RUNNING THEN w
    ELSE notify_state_change([w EXCEPT !.call.state = SIPE_CALL_RUNNING], local)

\* a hangup that always sends BYE
stream_info_hangup_always_bye(w, local) ==
    sipe_media_call_free(
        send([w EXCEPT !.call.state = SIPE_CALL_FINISHED],
             Request("BYE", w.call.callid, FALSE, NoBody)))

\* the PURPLE_MEDIA_INFO_HANGUP branch
stream_info_hangup(w, local) ==
    LET w1 == [w EXCEPT !.call.state = SIPE_CALL_FINISHED]
        w2 == IF local THEN send(w1, Request("BYE", w1.call.callid, FALSE, NoBody)) ELSE w1
    IN sipe_media_call_free(w2)

\* the PURPLE_MEDIA_INFO_REJECT branch
stream_info_reject(w) ==
    sipe_media_call_free(send(w, Response(w.call.invitation, 603, NoBody)))

\* every branch reads a field of sip->media_call, NULL or not
sipe_media_stream_info_cb(w, type, local) ==
    IF ~w.call.alive THEN crash(w, "null_deref")
    ELSE IF type = "ACCEPT" THEN sipe_media_session_ready_cb(w)
    ELSE IF type = "REJECT" THEN stream_info_reject(w)
    ELSE IF type = "HOLD" THEN stream_info_hold(w, local)
    ELSE IF type = "UNHOLD" THEN stream_info_unhold(w, local)
    ELSE stream_info_hangup(w, local)

\* libpurple's purple_media_stream_info on the call's own media: ACCEPT marks the
\* streams accepted, the stream-info signal runs the callback, and after HANGUP
\* or REJECT the media is ended
purple_media_stream_info(w, type, local) ==
    LET w1 == IF type = "ACCEPT" THEN [w EXCEPT !.media.accepted = TRUE] ELSE w
        w2 == sipe_media_stream_info_cb(w1, type, local)
    IN IF w2.fault = "none" /\ type \in {"HANGUP", "REJECT"}
       THEN [w2 EXCEPT !.media = NoMedia]
       ELSE w2

sipe_media_hold(w) ==
    IF w.call.alive THEN purple_media_stream_info(called(w, "sipe_media_hold"), "HOLD", FALSE)
    ELSE w

sipe_media_unhold(w) ==
    IF w.call.alive THEN purple_media_stream_info(called(w, "sipe_media_unhold"), "UNHOLD", FALSE)
    ELSE w

sipe_media_hangup(w) ==
    IF w.call.alive THEN purple_media_stream_info(called(w, "sipe_media_hangup"), "HANGUP", FALSE)
    ELSE w

-----------------------------------------------------------------------------
(* Incoming INVITE *)

\* g_new0(sipe_media_call, 1)
ZeroCall ==
    [alive |-> TRUE, callid |-> Null, remote_ip |-> Null, remote_port |-> 0,
     sdp_attrs |-> <<>>, invitation |-> NoMsg, remote_candidates |-> <<>>,
     remote_codecs |-> <<>>, sdp_response |-> NoBody, legacy_mode |-> FALSE,
     state |-> SIPE_CALL_CONNECTING]

\* returns the new call, or NoCall for the NULL of a failed parse
sipe_media_call_init(msg) ==
    LET r == sipe_media_parse_sdp_frame(ZeroCall, msg.body) IN
    IF ~r.no_error THEN NoCall
    ELSE LET call == [r.call EXCEPT !.invitation = msg,
                                    !.legacy_mode = FALSE,
                                    !.state = SIPE_CALL_CONNECTING]
             res == sipe_media_parse_remote_candidates(call)
         IN [call EXCEPT !.legacy_mode = res.legacy_mode,
                         !.remote_candidates = res.candidates]

\* the branch of sipe_media_incoming_invite taken when sip->media_call is NULL
first_invite(w, msg) ==
    LET call == sipe_media_call_init(msg) IN
    IF ~call.alive THEN crash(w, "null_deref")
    ELSE LET call1 == [call EXCEPT
                         !.callid = msg.callid,
                         !.remote_codecs = sipe_media_prune_remote_codecs(
                                              LocalCodecs, sipe_media_parse_remote_codecs(call))]
         IN IF call1.remote_candidates = <<>> \/ call1.remote_codecs = <<>>
            THEN [sipe_media_call_free([w EXCEPT !.call = call1])
                    EXCEPT !.stale = TRUE]
            ELSE send([w EXCEPT !.call = call1, !.media = NewMedia],
                      Response(msg, 180, NoBody))

\* a re-INVITE that runs the candidate resolver again on the new attributes
reinvite_parse_resolving(w, msg) ==
    LET call1 == [w.call EXCEPT !.invitation = msg, !.sdp_attrs = <<>>]
        r == sipe_media_parse_sdp_frame(call1, msg.body)
        res == sipe_media_parse_remote_candidates([r.call EXCEPT !.legacy_mode = FALSE])
    IN [w EXCEPT !.call = [r.call EXCEPT !.legacy_mode = res.legacy_mode,
                                         !.remote_candidates = res.candidates]]

\* the re-INVITE takes over as the pending invitation and its SDP is parsed
\* into the call; the result of the parse is not looked at
reinvite_parse(w, msg) ==
    LET call1 == [w.call EXCEPT !.invitation = msg, !.sdp_attrs = <<>>]
        r == sipe_media_parse_sdp_frame(call1, msg.body)
    IN [w EXCEPT !.call = r.call]

\* the fresh negotiation round of a re-INVITE
reinvite_negotiate(w) ==
    LET w1 == called([w EXCEPT
                        !.call.remote_codecs = sipe_media_prune_remote_codecs(
                             LocalCodecs, sipe_media_parse_remote_codecs(w.call))],
                     "sipe_media_prune_remote_codecs")
        rsp == sipe_media_create_sdp(w1.call, w1.media, TRUE)
    IN IF rsp.fault # "none" THEN crash(w1, rsp.fault)
       ELSE send(w1, Response(w1.call.invitation, 200, rsp.body))

\* a dispatch that looks at the held state before the inactive attribute
reinvite_dispatch_held_first(w) ==
    IF w.call.legacy_mode /\ w.call.state = SIPE_CALL_RUNNING THEN sipe_media_hold(w)
    ELSE IF w.call.state = SIPE_CALL_HELD THEN sipe_media_unhold(w)
    ELSE IF nameval_has(w.call.sdp_attrs, "inactive") THEN sipe_media_hold(w)
    ELSE reinvite_negotiate(w)

reinvite_dispatch(w) ==
    IF w.call.legacy_mode /\ w.call.state = SIPE_CALL_RUNNING THEN sipe_media_hold(w)
    ELSE IF nameval_has(w.call.sdp_attrs, "inactive") THEN sipe_media_hold(w)
    ELSE IF w.call.state = SIPE_CALL_HELD THEN sipe_media_unhold(w)
    ELSE reinvite_negotiate(w)

\* the branch for a Call-ID other than the active call's: a printf, nothing else
other_invite(w, msg) == w

sipe_media_incoming_invite(w, msg) ==
    IF w.call.alive
    THEN IF w.call.callid = msg.callid
         THEN reinvite_dispatch(reinvite_parse(w, msg))
         ELSE other_invite(w, msg)
    ELSE first_invite(w, msg)

-----------------------------------------------------------------------------
(* The INVITEs the peer may send *)

CallIds == {"c1", "c2"}

RemoteRtp == CandTokens("1", 1, "UDP", 100, "10.0.0.5", 5004, "host")
RemoteRtcp == CandTokens("1", 2, "UDP", 99, "10.0.0.5", 5005, "host")
RemoteTcp == CandTokens("2", 2, "TCP", 50, "10.0.0.5", 5005, "host")

Sdp(ip, port, attrs) ==
    << Line("v", Null, 0), Line("o", Null, ip), Line("s", Null, "session"),
       Line("m", Null, [port |-> port, fmt |-> <<0>>]) >> \o attrs

Ice == << Line("a", "ice-ufrag", "ru"), Line("a", "ice-pwd", "rp") >>

Cand(t) == Line("a", "candidate", t)

Rtpmap(id, name) == Line("a", "rtpmap", RtpTokens(id, name, 8000))

Inactive == Line("a", "inactive", Null)

\* the line "a=" with nothing after it
Broken == Line("a", Null, Null)

SdpIce == Sdp("10.0.0.5", 5004,
              Ice \o <<Cand(RemoteRtp), Cand(RemoteRtcp), Rtpmap(0, "PCMU"), Rtpmap(9, "G722")>>)

SdpOneCandidate == Sdp("10.0.0.5", 5004,
              Ice \o <<Cand(RemoteRtp), Cand(RemoteTcp),
                       Rtpmap(9, "G722"), Rtpmap(0, "PCMU"), Rtpmap(97, "SPEEX")>>)

SdpLegacy == Sdp("10.0.0.5", 5004, <<Rtpmap(0, "PCMU")>>)

SdpHold == Sdp("10.0.0.5", 5004,
              Ice \o <<Cand(RemoteRtp), Cand(RemoteRtcp), Inactive, Rtpmap(0, "PCMU")>>)

SdpMalformed == Sdp("10.0.0.5", 5004,
              Ice \o <<Cand(RemoteRtp), Cand(RemoteRtcp), Broken, Rtpmap(0, "PCMU")>>)

SdpNoCodec == Sdp("10.0.0.5", 5004,
              Ice \o <<Cand(RemoteRtp), Cand(RemoteRtcp), Rtpmap(97, "SPEEX"), Rtpmap(0, "pcmu")>>)

Bodies == { SdpIce, SdpOneCandidate, SdpLegacy, SdpHold, SdpMalformed, SdpNoCodec }

Msgs == [callid : CallIds, body : Bodies]

-----------------------------------------------------------------------------
(* The state machine *)

\* what an event record keeps of an INVITE
Describe(msg) ==
    [callid |-> msg.callid,
     malformed |-> \E i \in 1..Len(msg.body) : Malformed(msg.body[i]),
     inactive |-> \E i \in 1..Len(msg.body) :
                     msg.body[i].p = "a" /\ msg.body[i].name = "inactive"]

World ==
    [call |-> media_call, media |-> media, stale |-> stale_media,
     freed |-> Summary(NoCall), out |-> <<>>, fault |-> "none", path |-> <<>>]

Commit(w, op, type, local, msg) ==
    /\ media_call' = w.call
    /\ media' = w.media
    /\ stale_media' = w.stale
    /\ out' = w.out
    /\ fault' = w.fault
    /\ ev' = [op |-> op, type |-> type, local |-> local, msg |-> Describe(msg),
               path |-> w.path, pre |-> Summary(media_call), freed |-> w.freed]
    /\ pf' = pf

InitCall ==
    /\ media_call = NoCall
    /\ media = NoMedia
    /\ stale_media = FALSE
    /\ out = <<>>
    /\ ev = [op |-> "init", type |-> Null, local |-> FALSE, msg |-> Describe(NoMsg),
             path |-> <<>>, pre |-> Summary(NoCall), freed |-> Summary(NoCall)]
    /\ fault = "none"

Init == InitCall /\ pf = [fn |-> "none"]

\* the SIP stack hands an INVITE to sipe_media_incoming_invite
IncomingInvite(msg) ==
    /\ fault = "none"
    /\ Commit(sipe_media_incoming_invite(World, msg), "invite", Null, FALSE, msg)

InfoTypes == {"ACCEPT", "REJECT", "HOLD", "UNHOLD", "HANGUP"}

\* the user interface or the engine calls purple_media_stream_info on the call's
\* media (own), or on a media whose call was freed: its callback, still
\* connected, works on whatever sip->media_call is, and after HANGUP or REJECT
\* that media is ended and the media of the call just freed is the one left behind
StreamInfo(type, local, own) ==
    /\ fault = "none"
    /\ IF own THEN media.exists ELSE stale_media
    /\ LET w == IF own THEN purple_media_stream_info(World, type, local)
                ELSE sipe_media_stream_info_cb(World, type, local)
           w1 == IF w.fault = "none" /\ type \in {"HANGUP", "REJECT"}
                 THEN [w EXCEPT !.media = NoMedia] ELSE w
       IN Commit(w1, "stream_info", type, local, NoMsg)

\* the engine signals candidates-prepared on the call's media, once
CandidatesPrepared(lc) ==
    /\ fault = "none"
    /\ media.exists /\ ~media.prepared
    /\ Commit(sipe_media_session_ready_cb(
                 [World EXCEPT !.media.prepared = TRUE, !.media.local_candidates = lc]),
              "candidates_prepared", Null, FALSE, NoMsg)

\* candidates-prepared on a media whose call was freed runs
\* sipe_media_session_ready_cb on the freed struct: the process faults, or the
\* memory still holds a call and the callback answers its freed invitation
\* with 183 or 200, or (legacy and not accepted) sends nothing
StaleCandidatesPrepared(outcome) ==
    /\ fault = "none"
    /\ stale_media
    /\ LET w == IF outcome = "fault" THEN crash(World, "use_after_free")
                ELSE IF outcome = "silent" THEN World
                ELSE send(World, Response(NoMsg, IF outcome = "183" THEN 183 ELSE 200, NoBody))
       IN Commit(w, "stale_candidates_prepared", Null, FALSE, NoMsg)

\* the rest of the plugin calls the exported entry points
Hold == fault = "none" /\ Commit(sipe_media_hold(World), "sipe_media_hold", "HOLD", FALSE, NoMsg)

Unhold == fault = "none" /\ Commit(sipe_media_unhold(World), "sipe_media_unhold", "UNHOLD", FALSE, NoMsg)

Hangup == fault = "none" /\ Commit(sipe_media_hangup(World), "sipe_media_hangup", "HANGUP", FALSE, NoMsg)

Next ==
    \/ \E msg \in Msgs : IncomingInvite(msg)
    \/ \E type \in InfoTypes, local \in BOOLEAN, own \in BOOLEAN : StreamInfo(type, local, own)
    \/ \E lc \in LocalCandidateLists : CandidatesPrepared(lc)
    \/ \E outcome \in {"fault", "silent", "183", "200"} : StaleCandidatesPrepared(outcome)
    \/ Hold
    \/ Unhold
    \/ Hangup

Spec == Init /\ [][Next]_vars

-----------------------------------------------------------------------------
(* Codec negotiation on its own: every local and remote list within the bounds *)

MaxLocal == 2
MaxRemote == 3

CodecPool == { Codec(0, "PCMU", 8000), Codec(9, "G722", 8000),
               Codec(97, "SPEEX", 8000), Codec(0, "pcmu", 8000) }

SeqsUpTo(S, n) == UNION { [1..k -> S] : k \in 0..n }

InitCodecs ==
    /\ InitCall
    /\ \E l \in SeqsUpTo(CodecPool, MaxLocal), r \in SeqsUpTo(CodecPool, MaxRemote) :
          pf = [fn |-> "prune", local |-> l, remote |-> r, done |-> FALSE, result |-> <<>>]

Prune ==
    /\ pf.fn = "prune" /\ ~pf.done
    /\ pf' = [pf EXCEPT !.done = TRUE,
                        !.result = sipe_media_prune_remote_codecs(pf.local, pf.remote)]
    /\ UNCHANGED <<media_call, media, stale_media, out, ev, fault>>

SpecCodecs == InitCodecs /\ [][Prune]_vars

-----------------------------------------------------------------------------
(* The candidate resolver on its own: every attribute list within the bounds, *)
(* on a call as sipe_media_call_init hands it over                            *)

MaxCandidateLines == 2

CandidatePool ==
    { RemoteRtp, RemoteRtcp, RemoteTcp,
      CandTokens("3", 1, "UDP", 10, "10.0.0.5", 5004, "prflx"),
      CandTokens("4", 1, "UDP", 5, "10.0.0.9", 7000, "relay"),
      CandTokens("4", 3, "UDP", 4, "10.0.0.9", 7001, "srflx") }

Endpoints == { [ip |-> "10.0.0.5", port |-> 5004], [ip |-> "10.0.0.9", port |-> 65535] }

InitCandidates ==
    /\ InitCall
    /\ \E cl \in SeqsUpTo(CandidatePool, MaxCandidateLines), ice \in BOOLEAN, e \in Endpoints :
          pf = [fn |-> "resolve",
                call |-> sipe_media_parse_sdp_frame(ZeroCall,
                            Sdp(e.ip, e.port,
                                (IF ice THEN Ice ELSE <<>>)
                                \o [i \in 1..Len(cl) |-> Cand(cl[i])]
                                \o <<Rtpmap(0, "PCMU")>>)).call,
                lines |-> cl, done |-> FALSE,
                candidates |-> <<>>, legacy_mode |-> FALSE]

Resolve ==
    /\ pf.fn = "resolve" /\ ~pf.done
    /\ LET res == sipe_media_parse_remote_candidates(pf.call) IN
       pf' = [pf EXCEPT !.done = TRUE, !.candidates = res.candidates,
                        !.legacy_mode = res.legacy_mode]
    /\ UNCHANGED <<media_call, media, stale_media, out, ev, fault>>

SpecCandidates == InitCandidates /\ [][Resolve]_vars

-----------------------------------------------------------------------------
(* Properties *)

HasInactive(body) ==
    \E i \in 1..Len(body) : body[i].p = "a" /\ body[i].name = "inactive"

Names(codecs) == [i \in 1..Len(codecs) |-> codecs[i].name]

\* the last handler was sipe_media_incoming_invite for the active call's Call-ID
WasReInvite == ev.op = "invite" /\ ev.pre.alive /\ ev.msg.callid = ev.pre.callid

\* this step is sipe_media_incoming_invite for the active call's Call-ID
IsReInvite == media_call.alive /\ ev'.op = "invite" /\ ev'.msg.callid = media_call.callid

\* 486 Busy Here, 600 Busy Everywhere
BusyCodes == {486, 600}

\* C1: an INVITE with another Call-ID while a call is active is answered with a
\* busy response and leaves every field of the active call as it was.
C1_OtherCallRejectedBusy ==
    [][ (media_call.alive /\ ev'.op = "invite" /\ ev'.msg.callid # media_call.callid)
        => /\ media_call' = media_call
           /\ \E i \in 1..Len(out') :
                 out'[i].kind = "response" /\ out'[i].code \in BusyCodes ]_vars

\* C2: legacy_mode is a latch: no handler takes a call that is in legacy mode
\* to a call that is not, for as long as the call exists.
C2_LegacyModeLatch ==
    [][ (media_call.alive /\ media_call.legacy_mode /\ media_call'.alive)
        => media_call'.legacy_mode ]_vars

\* a legacy call has taken a re-INVITE that carries candidate lines
C2_Witness ==
    /\ WasReInvite /\ ev.pre.legacy_mode
    /\ media_call.alive /\ media_call.legacy_mode
    /\ nameval_has(media_call.sdp_attrs, "candidate")

Accepted(lines) ==
    SelectSeq(lines, LAMBDA t : t.protocol = "UDP" /\ t.typ \in {"host", "relay", "srflx"})

\* C3: with no accepted candidate line the resolver returns the RTP host UDP
\* candidate at (remote_ip, remote_port) and then the RTCP one at remote_port + 1
\* and sets legacy_mode; with an accepted line it returns one candidate per
\* accepted line, none synthesized, and leaves legacy_mode unset.
C3_ResolverFallback ==
    (pf.fn = "resolve" /\ pf.done) =>
        LET acc == Accepted(pf.lines)
            c == pf.candidates
        IN IF acc = <<>>
           THEN /\ Len(c) = 2
                /\ c[1].component = "RTP" /\ c[2].component = "RTCP"
                /\ \A i \in 1..2 : c[i].type = "HOST" /\ c[i].protocol = "UDP"
                                   /\ c[i].ip = pf.call.remote_ip
                /\ c[1].port = pf.call.remote_port
                /\ c[2].port = pf.call.remote_port + 1
                /\ pf.legacy_mode
           ELSE /\ Len(c) = Len(acc)
                /\ \A i \in 1..Len(c) : /\ c[i].foundation = acc[i].foundation
                                        /\ c[i].ip = acc[i].ip
                                        /\ c[i].port = acc[i].port
                /\ ~pf.legacy_mode

\* candidate lines were present and every one was filtered out
C3_Witness ==
    /\ pf.fn = "resolve" /\ pf.done
    /\ pf.lines # <<>> /\ Accepted(pf.lines) = <<>>
    /\ Len(pf.candidates) = 2 /\ pf.legacy_mode

\* C4: pruning returns exactly the remote codecs whose encoding name equals that
\* of some local codec, in remote order; local [PCMU, G722] against remote
\* [G722, PCMU, SPEEX] gives [G722, PCMU].
C4_PruneKeepsRemoteOrder ==
    (pf.fn = "prune" /\ pf.done) =>
        /\ pf.result = SelectSeq(pf.remote,
                          LAMBDA c : \E i \in 1..Len(pf.local) : pf.local[i].name = c.name)
        /\ (Names(pf.local) = <<"PCMU", "G722">> /\ Names(pf.remote) = <<"G722", "PCMU", "SPEEX">>)
              => Names(pf.result) = <<"G722", "PCMU">>

\* the example lists have been pruned
C4_Witness ==
    /\ pf.fn = "prune" /\ pf.done
    /\ Names(pf.local) = <<"PCMU", "G722">>
    /\ Names(pf.remote) = <<"G722", "PCMU", "SPEEX">>
    /\ Names(pf.result) = <<"G722", "PCMU">>

\* C5: a local Hold on a running call leaves it held and sends one INVITE whose
\* SDP has a=inactive; a re-INVITE without inactive on a held, non-legacy call
\* leaves it running and sends one 200 OK whose SDP has no a=inactive.
C5_HoldThenRemoteUnhold ==
    [][ /\ (/\ ev'.op = "stream_info" /\ ev'.type = "HOLD" /\ ev'.local
            /\ media_call.alive /\ media_call.state = SIPE_CALL_RUNNING)
           => /\ media_call'.alive /\ media_call'.state = SIPE_CALL_HELD
              /\ Len(out') = 1
              /\ out'[1].kind = "request" /\ out'[1].method = "INVITE"
              /\ HasInactive(out'[1].body)
        /\ (/\ IsReInvite /\ ~ev'.msg.inactive
            /\ media_call.state = SIPE_CALL_HELD /\ ~media_call.legacy_mode)
           => /\ media_call'.alive /\ media_call'.state = SIPE_CALL_RUNNING
              /\ Len(out') = 1
              /\ out'[1].kind = "response" /\ out'[1].code = 200
              /\ ~HasInactive(out'[1].body) ]_vars

\* C6: a re-INVITE whose SDP has a malformed a= line leaves the call's sdp_attrs
\* as they were before the handler.
C6_MalformedKeepsAttrs ==
    [][ (IsReInvite /\ ev'.msg.malformed)
        => (media_call'.alive /\ media_call'.sdp_attrs = media_call.sdp_attrs) ]_vars

IsBye(m) == m.kind = "request" /\ m.method = "BYE"

\* C8: a hangup of a connecting, running or held call sets the state to
\* FINISHED, frees the call and clears the slot, and sends BYE on the call's
\* dialog exactly when the hangup is local.
C8_Hangup ==
    (ev.type = "HANGUP" /\ ev.pre.alive) =>
        /\ ~media_call.alive
        /\ ev.freed.alive /\ ev.freed.state = SIPE_CALL_FINISHED
        /\ IF ev.local
           THEN out = <<Request("BYE", ev.pre.callid, FALSE, NoBody)>>
           ELSE out = <<>>

\* a held call was hung up locally and BYE went out
C8_Witness ==
    /\ ev.type = "HANGUP" /\ ev.local /\ ev.pre.alive /\ ev.pre.state = SIPE_CALL_HELD
    /\ ~media_call.alive
    /\ Len(out) = 1 /\ IsBye(out[1])

\* C9: with the call destroyed, a stream-info callback, a candidates-prepared
\* callback or a call of sipe_media_hold, sipe_media_unhold or sipe_media_hangup
\* sends nothing, changes nothing and touches no freed or missing call.
C9_EventsAfterDestroyAreNoOps ==
    (/\ ev.op \in {"stream_info", "stale_candidates_prepared",
                   "sipe_media_hold", "sipe_media_unhold", "sipe_media_hangup"}
     /\ ~ev.pre.alive)
    => (out = <<>> /\ fault = "none" /\ ~media_call.alive)

\* C10: the call enters HELD only from RUNNING, and a Hold on a held call
\* changes nothing and sends nothing.
C10_HeldOnlyFromRunning ==
    [][ /\ (/\ media_call.alive /\ media_call'.alive
            /\ media_call.state # SIPE_CALL_HELD /\ media_call'.state = SIPE_CALL_HELD)
           => media_call.state = SIPE_CALL_RUNNING
        /\ (/\ ev'.type = "HOLD" /\ media_call.alive
            /\ media_call.state = SIPE_CALL_HELD)
           => (media_call' = media_call /\ out' = <<>>) ]_vars

\* this step is an ACCEPT stream-info on a live call whose media is accepted
\* when the callback runs
IsAccept ==
    /\ ev'.op = "stream_info" /\ ev'.type = "ACCEPT"
    /\ media_call.alive /\ media'.exists /\ media'.accepted

\* C11 as stated: an Accept for a call leaves the state RUNNING and sends one
\* 200 OK on the pending invitation, with the cached SDP or a newly made one.
C11_AcceptAnswers ==
    [][ IsAccept
        => /\ media_call'.alive /\ media_call'.state = SIPE_CALL_RUNNING
           /\ media_call'.sdp_response # NoBody
           /\ out' = <<Response(media_call.invitation, 200, media_call'.sdp_response)>> ]_vars

\* C11: an Accept for a call whose local candidates are prepared keeps the
\* cached SDP or makes one, sends one 200 OK with it on the pending invitation
\* and leaves the state RUNNING; before the candidates are prepared the Accept
\* sends nothing and changes nothing of the call.
C11_AcceptWhenPrepared ==
    [][ IsAccept
        => IF media.prepared
           THEN /\ media_call'.alive /\ media_call'.state = SIPE_CALL_RUNNING
                /\ media_call'.sdp_response # NoBody
                /\ media_call'.sdp_response =
                      IF media_call.sdp_response # NoBody THEN media_call.sdp_response
                      ELSE sipe_media_create_sdp(media_call, media, FALSE).body
                /\ media_call'.invitation = media_call.invitation
                /\ out' = <<Response(media_call.invitation, 200, media_call'.sdp_response)>>
                /\ fault' = "none"
           ELSE out' = <<>> /\ media_call' = media_call /\ fault' = "none" ]_vars

\* a connecting call with prepared candidates was accepted and answered 200
C11_Witness ==
    /\ ev.op = "stream_info" /\ ev.type = "ACCEPT"
    /\ ev.pre.alive /\ ev.pre.state = SIPE_CALL_CONNECTING
    /\ media.exists /\ media.prepared /\ media.accepted
    /\ media_call.alive /\ media_call.state = SIPE_CALL_RUNNING
    /\ out = <<Response(media_call.invitation, 200, media_call.sdp_response)>>

\* the codecs a negotiation round keeps of an INVITE's SDP
PrunedCodecs(msg) ==
    sipe_media_prune_remote_codecs(LocalCodecs,
        sipe_media_parse_remote_codecs(sipe_media_parse_sdp_frame(ZeroCall, msg.body).call))

\* this step is a negotiation round on msg: the first INVITE once its SDP is
\* parsed, or a re-INVITE that was dispatched to the codec negotiation
NegotiationRound(msg) ==
    /\ ev'.op = "invite" /\ ev'.msg = Describe(msg)
    /\ IncomingInvite(msg)
    /\ IF media_call.alive
       THEN ev'.path = <<"sipe_media_prune_remote_codecs">>
       ELSE sipe_media_call_init(msg).alive

\* C12: a negotiation round that ends with no remote codec frees the call,
\* clears the slot and sends neither 180 nor 200.
C12_NoCodecsDestroysCall ==
    [][ \A msg \in Msgs :
          (NegotiationRound(msg) /\ PrunedCodecs(msg) = <<>>)
          => /\ ~media_call'.alive
             /\ media_call.alive => ev'.freed.alive
             /\ \A i \in 1..Len(out') : out'[i].code \notin {180, 200} ]_vars

HasAttr(body, name) ==
    \E i \in 1..Len(body) : body[i].p = "a" /\ body[i].name = name

NoIceLines(body) ==
    ~HasAttr(body, "ice-ufrag") /\ ~HasAttr(body, "ice-pwd") /\ ~HasAttr(body, "candidate")

\* C13: no SDP body made for a call in legacy mode, whether a response or a
\* request carries it or the call caches it, has an a=ice-ufrag, a=ice-pwd or
\* a=candidate line.
C13_LegacyBodiesHaveNoIce ==
    /\ (ev.pre.alive /\ ev.pre.legacy_mode) => \A i \in 1..Len(out) : NoIceLines(out[i].body)
    /\ (media_call.alive /\ media_call.legacy_mode) => NoIceLines(media_call.sdp_response)

\* a legacy call has sent a request with an SDP body made from a local
\* candidate list with an RTCP candidate
C13_Witness ==
    /\ ev.pre.alive /\ ev.pre.legacy_mode
    /\ media.exists /\ Len(media.local_candidates) = 2
    /\ Len(out) = 1 /\ out[1].kind = "request" /\ out[1].body # NoBody
    /\ NoIceLines(out[1].body)
    /\ media_call.alive /\ media_call.sdp_response # NoBody

\* C14: a response SDP of a legacy call whose local candidates include an RTCP
\* candidate has the a=rtcp line with that candidate's port and no ICE
\* credential or candidate line.
C14_LegacyResponseHasRtcp ==
    (/\ ev.pre.alive /\ ev.pre.legacy_mode
     /\ media.exists /\ rtcp_port_of(media.local_candidates) # 0)
    => \A i \in 1..Len(out) :
          (out[i].kind = "response" /\ out[i].body # NoBody)
          => /\ \E j \in 1..Len(out[i].body) :
                   out[i].body[j] = Line("a", "rtcp", rtcp_port_of(media.local_candidates))
             /\ NoIceLines(out[i].body)

HeaderOrder == <<"v", "o", "s", "c", "b", "t", "m">>

\* the attribute lines in the order of the format strings of
\* sipe_media_sdp_candidates_format and sipe_media_create_sdp
AttrOrder ==
    <<"ice-ufrag", "ice-pwd", "candidate", "remote-candidates", "maxptime", "rtcp",
      "inactive", "rtpmap", "encryption">>

\* the attribute lines in the order C15 gives them
AttrOrderStated ==
    <<"ice-ufrag", "ice-pwd", "candidate", "inactive", "maxptime", "rtcp",
      "rtpmap", "encryption">>

\* an fmtp line belongs to the rtpmap line before it
LineClass(l) == IF l.name = "fmtp" THEN "rtpmap" ELSE l.name

Rank(l, order) ==
    IF l.p # "a" THEN CHOOSE k \in 1..Len(HeaderOrder) : HeaderOrder[k] = l.p
    ELSE Len(HeaderOrder) + (CHOOSE k \in 1..Len(order) : order[k] = LineClass(l))

InOrder(body, order) ==
    /\ Len(body) > Len(HeaderOrder)
    /\ \A k \in 1..Len(HeaderOrder) : body[k].p = HeaderOrder[k]
    /\ body[Len(body)] = Line("a", "encryption", "rejected")
    /\ \A i \in 1..(Len(body) - 1) :
          \/ Rank(body[i], order) < Rank(body[i + 1], order)
          \/ /\ Rank(body[i], order) = Rank(body[i + 1], order)
             /\ LineClass(body[i]) \in {"candidate", "rtpmap"}

\* the bodies the last handler sent and the body the call caches
GeneratedBodies ==
    { out[i].body : i \in { j \in 1..Len(out) : out[j].body # NoBody } }
    \cup (IF media_call.alive /\ media_call.sdp_response # NoBody
          THEN {media_call.sdp_response} ELSE {})

AnswersFromCache ==
    /\ \/ ev'.op = "candidates_prepared"
       \/ ev'.op = "stream_info" /\ ev'.type = "ACCEPT"
    /\ media_call.alive /\ media_call.sdp_response # NoBody

\* C16: no response carries a cached body made before a change of the call's
\* state: a body cached while the call was not held is not sent once the call
\* is held, and a body cached while it was held is not sent once it is not.
C16_CacheNotSentAfterStateChange ==
    [][ AnswersFromCache
        => \A i \in 1..Len(out') :
              (out'[i].kind = "response" /\ out'[i].body = media_call.sdp_response)
              => (HasInactive(out'[i].body) <=> media_call.state = SIPE_CALL_HELD) ]_vars

\* C17: candidates-prepared on a call that is not accepted yet leaves the state
\* of the call as it was; a call not in legacy mode sends one 183 with the
\* local SDP, cached or newly made, on the pending invitation, and a call in
\* legacy mode sends nothing.
C17_ProvisionalAnswer ==
    [][ (ev'.op = "candidates_prepared" /\ media_call.alive /\ ~media.accepted)
        => /\ media_call'.alive /\ media_call'.state = media_call.state
           /\ fault' = "none"
           /\ media_call'.sdp_response =
                 IF media_call.sdp_response # NoBody THEN media_call.sdp_response
                 ELSE sipe_media_create_sdp(media_call, media', FALSE).body
           /\ IF media_call.legacy_mode
              THEN out' = <<>>
              ELSE /\ media_call'.sdp_response # NoBody
                   /\ out' = <<Response(media_call.invitation, 183,
                                        media_call'.sdp_response)>> ]_vars

\* a connecting call not in legacy mode has sent its 183
C17_Witness ==
    /\ ev.op = "candidates_prepared"
    /\ ev.pre.alive /\ ~ev.pre.legacy_mode /\ ev.pre.state = SIPE_CALL_CONNECTING
    /\ media.exists /\ ~media.accepted
    /\ media_call.alive /\ media_call.state = SIPE_CALL_CONNECTING
    /\ out = <<Response(media_call.invitation, 183, media_call.sdp_response)>>

\* C18: a first INVITE whose SDP has a malformed a= line ends without a fault:
\* no call is installed, nothing is written through a NULL call and no 180 is
\* sent.
C18_MalformedFirstInviteFails ==
    (ev.op = "invite" /\ ~ev.pre.alive /\ ev.msg.malformed)
    => /\ fault = "none"
       /\ ~media_call.alive
       /\ \A i \in 1..Len(out) : out[i].code # 180

\* C19: after a re-INVITE that ran the negotiation round and returned, the
\* call's remote_codecs are the pruned codecs of the new sdp_attrs and its
\* remote_candidates are what the candidate resolver gives for the new
\* sdp_attrs, remote_ip and remote_port.
C19_ListsFollowNewSdp ==
    [][ (IsReInvite /\ ev'.path = <<"sipe_media_prune_remote_codecs">> /\ fault' = "none")
        => /\ media_call'.alive
           /\ media_call'.remote_codecs =
                 sipe_media_prune_remote_codecs(LocalCodecs,
                                                sipe_media_parse_remote_codecs(media_call'))
           /\ media_call'.remote_candidates =
                 sipe_media_parse_remote_candidates(media_call').candidates ]_vars

\* C20: a body with the a=remote-candidates line is made only for a call with
\* two remote candidates or more, and a call not in legacy mode that has fewer
\* never reads the second one: with its local candidates prepared, no handler
\* ends in the fault of that read.
C20_SecondRemoteCandidateExists ==
    [][ /\ \A i \in 1..Len(out') :
              HasAttr(out'[i].body, "remote-candidates")
              => (media_call.alive /\ Len(media_call.remote_candidates) >= 2)
        /\ (/\ media_call.alive /\ ~media_call.legacy_mode
            /\ Len(media_call.remote_candidates) < 2
            /\ media.exists /\ media.prepared)
           => fault' = "none" ]_vars

\* C21: a held call becomes running only in an unhold: an UNHOLD stream-info,
\* a call of sipe_media_unhold, or a re-INVITE dispatched to sipe_media_unhold.
C21_HeldLeavesOnlyByUnhold ==
    [][ (/\ media_call.alive /\ media_call.state = SIPE_CALL_HELD
         /\ media_call'.alive /\ media_call'.state = SIPE_CALL_RUNNING)
        => \/ ev'.type = "UNHOLD"
           \/ ev'.path = <<"sipe_media_unhold">> ]_vars

\* C22: a re-INVITE for the active call that the handler returns from is
\* answered in that handler with exactly one response, sent on that re-INVITE.
C22_ReInviteAnsweredOnce ==
    [][ (IsReInvite /\ fault' = "none")
        => /\ media_call'.alive
           /\ Len(SelectSeq(out', LAMBDA m : m.kind = "response")) = 1
           /\ \A i \in 1..Len(out') :
                 out'[i].kind = "response" => out'[i].inv = media_call'.invitation ]_vars

====
